---- MODULE Spec2Model ----
(***************************************************************************)
(* Model of the connection/request orchestration layer of the              *)
(* custom-web3-provider-sdk: the useWeb3Provider hook (connect with        *)
(* retry/backoff, disconnect, clearError, scans, event handlers), the      *)
(* requestAccounts wallet action, and the provider utilities               *)
(* (detectProviders, setupProviderEventListeners, safeProviderRequest).    *)
(*                                                                         *)
(* One action is one synchronous stretch of JavaScript: React batches the  *)
(* state setters called in it, so the setters of a stretch commit          *)
(* together (the last write to a field wins).                              *)
(***************************************************************************)
EXTENDS Integers, Sequences, FiniteSets, TLC

VARIABLES
    present,        \* window property -> BOOLEAN: the endpoint object is injected
    shape,          \* window property -> capability shape of the endpoint object
    handlers,       \* window property -> handlers registered on the object, in order
    providers,      \* useState providers: names found by the last scan that changed it
    currentProvider,\* useState currentProvider: identity name, or NoProvider
    accounts,       \* useState accounts: sequence of JS values
    chainId,        \* useState chainId: a JS value (Null when unset)
    status,         \* useState status
    error,          \* useState error: a typed error, or NoError
    isConnecting,   \* useState isConnecting
    cleanupRef,     \* useRef cleanupRef: the stored detach closure
    maxRetries,     \* mergedConfig.maxRetries
    overlap,        \* the host calls connect() while another connect() is in flight
    callers,        \* the connect() invocations the host makes
    config,         \* mergedConfig: the callbacks of the host that throw when invoked
    mounted,        \* the component that uses the hook is mounted
    calls,          \* connect() invocations: call id -> frame of the async function
    pendingAction,  \* wrapped wallet-action calls awaiting their request
    held,           \* the detach closure a direct caller of setupProviderEventListeners
                    \* holds, and how often it has called it
    probe,          \* the last value a validator was called with, and its verdict
    request,        \* one safeProviderRequest call of the host: its position, the
                    \* endpoint's doing and the outcome the caller got
    log             \* what the last step did: error and providers-changed callbacks
                    \* invoked in it, and the endpoint's answer when it was one

vars == <<present, shape, handlers, providers, currentProvider, accounts, chainId,
          status, error, isConnecting, cleanupRef, maxRetries, overlap, callers, config,
          mounted, calls, pendingAction, held, probe, request, log>>

(***************************************************************************)
(* Bounds of the model.                                                    *)
(***************************************************************************)
\* largest mergedConfig.maxRetries the configuration is drawn from
MaxRetriesCfg == 5
\* wrapped wallet-action calls in flight at once
MaxPending == 1

(***************************************************************************)
(* JavaScript values.  A string is a sequence of one-character strings.    *)
(***************************************************************************)
Null == [t |-> "null", v |-> <<>>]
Str(s) == [t |-> "string", v |-> s]
Arr(s) == [t |-> "array", v |-> s]
Obj(s) == [t |-> "object", v |-> s]

IsString(x) == x.t = "string"
IsArray(x) == x.t = "array"
\* JavaScript truthiness of the values the model uses
Truthy(x) == CASE x.t \in {"null", "undefined"} -> FALSE
               [] x.t = "string" -> Len(x.v) > 0
               [] OTHER -> TRUE

HexLower == {"0", "1", "2", "3", "4", "5", "6", "7", "8", "9", "a", "b", "c", "d", "e", "f"}
HexUpper == {"A", "B", "C", "D", "E", "F"}
AddressHexLen == 40

\* src/dist/providerUtils.js isValidAddress: /^0x[a-fA-F0-9]{40}$/
isValidAddress(x) ==
    /\ Truthy(x) /\ IsString(x)
    /\ Len(x.v) = AddressHexLen + 2
    /\ x.v[1] = "0" /\ x.v[2] = "x"
    /\ \A i \in 3..Len(x.v) : x.v[i] \in HexLower \cup HexUpper

ChainIdMaxLen == 64
ChainIdMinLen == 3

\* src/dist/providerUtils.js isValidChainId
isValidChainId(x) ==
    /\ Truthy(x) /\ IsString(x)
    /\ LET s == x.v
           isValidHex == /\ Len(s) >= 3 /\ s[1] = "0" /\ s[2] = "x"
                         /\ \A i \in 3..Len(s) : s[i] \in HexLower \cup HexUpper
           isNotZero == s # <<"0", "x">> /\ s # <<"0", "x", "0">>
           hasReasonableLength == Len(s) >= ChainIdMinLen /\ Len(s) <= ChainIdMaxLen
       IN isValidHex /\ isNotZero /\ hasReasonableLength

Address(c) == Str(<<"0", "x">> \o [i \in 1..AddressHexLen |-> c])
AddrA == Address("a")
AddrB == Address("b")
\* a string that is not an address
NotAnAddress == Str(<<"0", "x", "z">>)
Chain1 == Str(<<"0", "x", "1">>)
Chain2 == Str(<<"0", "x", "2">>)
\* a string that is not a chain id
ChainZero == Str(<<"0", "x", "0">>)

(***************************************************************************)
(* Errors.  A typed error is a Web3ProviderError (src/dist/types.js); a    *)
(* raw error is whatever the endpoint rejects with.  A numeric code is     *)
(* written as its decimal digits ("4001"), a missing message as "".        *)
(***************************************************************************)
Web3ProviderError(message, code, method) ==
    [typed |-> TRUE, code |-> code, message |-> message, method |-> method,
     nullish |-> FALSE]
RawError(code, message) ==
    [typed |-> FALSE, code |-> code, message |-> message, method |-> "",
     nullish |-> FALSE]
NoError ==
    [typed |-> TRUE, code |-> "", message |-> "", method |-> "", nullish |-> FALSE]
\* null or undefined used as a rejection value or thrown: it has no properties
NullishError == [RawError("", "") EXCEPT !.nullish = TRUE]
ProviderNotFoundError(name) ==
    Web3ProviderError("Provider not found", "PROVIDER_NOT_FOUND", name)
\* what a failed property read or call on undefined throws
TypeError == RawError("", "TypeError")

\* messages for which message.includes('evmAsk') is true
EvmAskMessages == {"evmAsk.js failure"}
\* message || fallback
OrElse(message, fallback) == IF message = "" THEN fallback ELSE message

\* src/dist/providerUtils.js createTimeoutPromise: what the timer rejects with
TimeoutError == Web3ProviderError("Request timeout", "RESOURCE_UNAVAILABLE", "")

(***************************************************************************)
(* What an endpoint does with one request: resolve with a value, reject    *)
(* with an error, or stay silent until the timer of the wrapper fires      *)
(* (a direct call that stays silent never settles).                        *)
(***************************************************************************)
Resolve(v) == [kind |-> "resolve", value |-> v, err |-> NoError]
Reject(e) == [kind |-> "reject", value |-> Null, err |-> e]
Silent == [kind |-> "silent", value |-> Null, err |-> NoError]
\* provider.request(...) throws before it returns a promise
Throws(e) == [kind |-> "throw", value |-> Null, err |-> e]

HasKey(x, k) == x.t = "object" /\ \E i \in 1..Len(x.v) : x.v[i][1] = k
Get(x, k) == x.v[CHOOSE i \in 1..Len(x.v) : x.v[i][1] = k][2]
Undefined == [t |-> "undefined", v |-> <<>>]

\* an unwrapping that looks at the data field first
UnwrapDataFirst(result) ==
    IF HasKey(result, "data") /\ Get(result, "data") # Undefined
    THEN Get(result, "data")
    ELSE IF HasKey(result, "result") /\ Get(result, "result") # Undefined
         THEN Get(result, "result")
         ELSE result

\* src/dist/providerUtils.js safeProviderRequest, the try block after the race
UnwrapResult(result) ==
    IF HasKey(result, "result") /\ Get(result, "result") # Undefined
    THEN Get(result, "result")
    ELSE IF HasKey(result, "data") /\ Get(result, "data") # Undefined
         THEN Get(result, "data")
         ELSE result

\* src/dist/providerUtils.js safeProviderRequest, the catch block
ClassifyError(e, method) ==
    CASE e.nullish -> TypeError     \* reading error.code throws out of the catch
      [] e.code = "4001" ->
            Web3ProviderError("User rejected the request", "USER_REJECTED", method)
      [] e.code = "4100" -> Web3ProviderError("Unauthorized", "UNAUTHORIZED", method)
      [] e.code = "4200" ->
            Web3ProviderError("Unsupported method", "UNSUPPORTED_METHOD", method)
      [] e.code = "4900" ->
            Web3ProviderError("Disconnected from chain", "NETWORK_ERROR", method)
      [] e.code = "4901" ->
            Web3ProviderError("Chain disconnected", "NETWORK_ERROR", method)
      [] OTHER ->
            Web3ProviderError(OrElse(e.message, "Provider request failed"),
                              "JSON_RPC_ERROR", method)

\* src/dist/providerUtils.js safeProviderRequest: the settled outcome of the
\* wrapper, given what the endpoint did with the request
safeProviderRequest(response, method) ==
    CASE response.kind = "resolve" ->
            [ok |-> TRUE, value |-> UnwrapResult(response.value), err |-> NoError]
      [] response.kind \in {"reject", "throw"} ->
            [ok |-> FALSE, value |-> Null, err |-> ClassifyError(response.err, method)]
      [] OTHER ->
            [ok |-> FALSE, value |-> Null, err |-> ClassifyError(TimeoutError, method)]

(***************************************************************************)
(* The host: window properties that may hold an endpoint object, and the   *)
(* capability shape of each object.                                        *)
(***************************************************************************)
Handles == {"customWallet", "ethereum"}
NoHandle == "none"
NoProvider == "none"

\* src/src/constants.ts PROVIDER_PATTERNS, in Object.entries order
PROVIDER_PATTERNS ==
    << [name |-> "customwallet", windowProperty |-> "customWallet", isProperty |-> "isCustomWallet"],
       [name |-> "metamask", windowProperty |-> "ethereum", isProperty |-> "isMetaMask"],
       [name |-> "coinbase", windowProperty |-> "coinbaseWalletExtension", isProperty |-> "isCoinbaseWallet"],
       [name |-> "trustwallet", windowProperty |-> "trustwallet", isProperty |-> "isTrust"],
       [name |-> "rabby", windowProperty |-> "rabby", isProperty |-> "isRabby"],
       [name |-> "brave", windowProperty |-> "brave", isProperty |-> "isBraveWallet"],
       [name |-> "lxxwallet", windowProperty |-> "lxxwallet", isProperty |-> "isLxxWallet"] >>

\* the shape of an endpoint object: on is "absent", "ok" or "throws"; marker is
\* the value of the pattern's isProperty on it: "absent", "true", "false" or
\* "other" (present with a value that is neither); isConnected is "absent" or
\* what calling it does: "true", "false" or "throws"
EndpointShape(on, removeListener, removeAllListeners, setAddress, marker) ==
    [on |-> on, removeListener |-> removeListener,
     removeAllListeners |-> removeAllListeners, setAddress |-> setAddress,
     marker |-> marker, rejects |-> FALSE, isConnected |-> "absent",
     malformed |-> FALSE]

\* window[p] is an object with a callable request
WindowHas(p) == p \in Handles /\ present[p]

\* src/dist/providerUtils.js detectProviders: the condition under which the
\* endpoint of a pattern is pushed
Accepted(pattern) ==
    /\ WindowHas(pattern.windowProperty)
    /\ \/ shape[pattern.windowProperty].marker # "absent"
       \/ pattern.name = "customwallet"
       \/ shape[pattern.windowProperty].marker = "false"

\* src/dist/providerUtils.js detectProviders: the detected entries, in pattern
\* order, when no isConnected() call throws
detectProviders ==
    LET found == SelectSeq(PROVIDER_PATTERNS, Accepted)
    IN [i \in 1..Len(found) |->
            [name |-> found[i].name, provider |-> found[i].windowProperty,
             isConnected |-> shape[found[i].windowProperty].isConnected = "true"]]

\* src/dist/providerUtils.js detectProviders: provider.isConnected?.() of an
\* accepted endpoint throws, and nothing in detectProviders catches it
detectProvidersThrows ==
    \E i \in 1..Len(PROVIDER_PATTERNS) :
        /\ Accepted(PROVIDER_PATTERNS[i])
        /\ shape[PROVIDER_PATTERNS[i].windowProperty].isConnected = "throws"
\* what the throwing isConnected() raises
ScanFailure == RawError("", "isConnected failed")

\* what the providers state keeps of a scan's result, as far as hasChanged
\* compares it: name and isConnected of each entry
Hints(detected) ==
    [i \in 1..Len(detected) |-> <<detected[i].name, detected[i].isConnected>>]

(***************************************************************************)
(* The React state of the hook as a record, so that the setters called in  *)
(* one synchronous stretch compose.  onErrors and notified count the       *)
(* invocations of config.onError and config.onProvidersChanged in the      *)
(* stretch.                                                                *)
(***************************************************************************)
ReactState ==
    [providers |-> providers, currentProvider |-> currentProvider,
     accounts |-> accounts, chainId |-> chainId, status |-> status,
     error |-> error, isConnecting |-> isConnecting, onErrors |-> 0, notified |-> 0,
     raised |-> FALSE]

Render(R) ==
    /\ providers' = R.providers
    /\ currentProvider' = R.currentProvider
    /\ accounts' = R.accounts
    /\ chainId' = R.chainId
    /\ status' = R.status
    /\ error' = R.error
    /\ isConnecting' = R.isConnecting

\* src/src/useWeb3Provider.ts handleError: error instanceof Web3ProviderError ? error : wrap
ToWeb3Error(e) ==
    IF e.typed THEN e
    ELSE Web3ProviderError(OrElse(e.message, "Unknown error occurred"), "INTERNAL_ERROR", "")

\* a callback of mergedConfig is invoked: it returns, or it throws and the
\* exception is on its way up (raised)
Invoke(R, callback) == [R EXCEPT !.raised = callback \in config]

\* what a callback of the host throws
CallbackError == [RawError("", "callback failed") EXCEPT !.typed = FALSE]

\* a handleError that stores the error without invoking config.onError
handleErrorUnreported(R, e) ==
    [R EXCEPT !.error = ToWeb3Error(e), !.status = "error"]

\* src/src/useWeb3Provider.ts handleError
handleError(R, e) ==
    Invoke([R EXCEPT !.error = ToWeb3Error(e), !.status = "error", !.onErrors = @ + 1],
           "onError")

\* a scan that notifies the observer whether or not the list changed
detectProvidersCallbackAlwaysNotifies(R) ==
    [R EXCEPT !.error = NoError, !.providers = Hints(detectProviders),
              !.notified = @ + 1]

\* src/src/useWeb3Provider.ts detectProvidersCallback: the state after the scan
detectProvidersCallback(R) ==
    LET R0 == [R EXCEPT !.error = NoError]
        detected == Hints(detectProviders)
        hasChanged == R.providers # detected
    IN IF detectProvidersThrows
       THEN handleError(R0, ScanFailure)
       ELSE [R0 EXCEPT !.providers = IF hasChanged THEN detected ELSE @,
                       !.notified = IF hasChanged THEN @ + 1 ELSE @]

\* a list made from the providers state of the last render instead of a scan
ScannedFromState ==
    LET known == {providers[i][1] : i \in 1..Len(providers)}
        found == SelectSeq(PROVIDER_PATTERNS, LAMBDA pattern : pattern.name \in known)
    IN [i \in 1..Len(found) |->
            [name |-> found[i].name, provider |-> found[i].windowProperty,
             isConnected |-> FALSE]]

\* src/src/useWeb3Provider.ts detectProvidersCallback: the list it returns
Scanned == IF detectProvidersThrows THEN <<>> ELSE detectProviders

(***************************************************************************)
(* Event handlers registered on endpoint objects.  A handler is the event  *)
(* name, the function, and the subscription that created it: <<call,       *)
(* attempt>> for a setupProviderEventListeners call of a connection        *)
(* attempt, GlobalSub for the handlers of the mount effect.                *)
(***************************************************************************)
GlobalSub == <<0, 0>>
Handler(ev, fn, sub) == [ev |-> ev, fn |-> fn, sub |-> sub]

\* src/src/useWeb3Provider.ts setupEventListeners, allProviderNames
allProviderNames ==
    <<"ethereum", "lxx", "customWallet", "coinbaseWalletExtension", "rabby", "brave",
      "trustwallet">>

\* src/src/useWeb3Provider.ts setupEventListeners: the handlers it puts on window[p]
GlobalHandlers(p) ==
    IF WindowHas(p) /\ shape[p].on = "ok" /\ \E i \in 1..Len(allProviderNames) : allProviderNames[i] = p
    THEN <<Handler("chainChanged", "handleGlobalChainChanged", GlobalSub),
           Handler("accountsChanged", "handleGlobalAccountsChanged", GlobalSub)>>
         \o (IF p = "ethereum"
             THEN <<Handler("connect", "handleEthereumEvent", GlobalSub)>>
             ELSE <<>>)
    ELSE <<>>

\* src/dist/providerUtils.js setupProviderEventListeners: the four handlers
SubscriptionHandlers(sub) ==
    <<Handler("accountsChanged", "handleAccountsChanged", sub),
      Handler("chainChanged", "handleChainChanged", sub),
      Handler("disconnect", "handleDisconnect", sub),
      Handler("connect", "handleConnect", sub)>>

\* the detach closures a ref can hold
NoCleanup == [kind |-> "null", handle |-> NoHandle, sub |-> GlobalSub]
NoopCleanup == [kind |-> "noop", handle |-> NoHandle, sub |-> GlobalSub]
DetachCleanup(p, sub) == [kind |-> "detach", handle |-> p, sub |-> sub]

\* a detach closure that removes nothing
RunCleanupKeepsAll(cleanup, H) == H

\* src/dist/providerUtils.js setupProviderEventListeners, the returned closure:
\* the handlers left on the objects after calling it
RunCleanup(cleanup, H) ==
    IF cleanup.kind # "detach" THEN H
    ELSE LET p == cleanup.handle
         IN IF shape[p].removeListener
            THEN [H EXCEPT ![p] = SelectSeq(@, LAMBDA h : h.sub # cleanup.sub)]
            ELSE IF shape[p].removeAllListeners
                 THEN [H EXCEPT ![p] = <<>>]
                 ELSE H

\* an attach that leaves out the handler of the connect event
setupProviderEventListenersNoConnect(p, sub, H) ==
    IF shape[p].on = "absent"
    THEN [handlers |-> H, cleanup |-> NoopCleanup, failed |-> FALSE]
    ELSE [handlers |-> [H EXCEPT ![p] = @ \o SubSeq(SubscriptionHandlers(sub), 1, 3)],
          cleanup |-> DetachCleanup(p, sub), failed |-> shape[p].on = "throws"]

\* src/dist/providerUtils.js setupProviderEventListeners: handlers after the call,
\* the closure it returns, and whether it reported an attach failure
setupProviderEventListeners(p, sub, H) ==
    CASE shape[p].on = "absent" ->
            [handlers |-> H, cleanup |-> NoopCleanup, failed |-> FALSE]
      [] shape[p].on = "throws" ->
            [handlers |-> H, cleanup |-> DetachCleanup(p, sub), failed |-> TRUE]
      [] OTHER ->
            [handlers |-> [H EXCEPT ![p] = @ \o SubscriptionHandlers(sub)],
             cleanup |-> DetachCleanup(p, sub), failed |-> FALSE]

AttachError == Web3ProviderError("Failed to attach event listeners", "INTERNAL_ERROR", "")

(***************************************************************************)
(* Event-driven transitions.  The mount effect runs once (the host passes  *)
(* a stable config), so its handlers see the currentProvider of the first  *)
(* render, which is null.                                                  *)
(***************************************************************************)
StringsOf(seq) == SelectSeq(seq, LAMBDA a : Truthy(a) /\ IsString(a))

ResetOnNoAccounts(R) ==
    [R EXCEPT !.currentProvider = NoProvider, !.chainId = Null, !.status = "disconnected"]

\* src/src/useWeb3Provider.ts handleGlobalAccountsChanged
handleGlobalAccountsChanged(R, newAccounts) ==
    LET validAccounts == IF IsArray(newAccounts) THEN StringsOf(newAccounts.v) ELSE <<>>
        R1 == Invoke([R EXCEPT !.accounts = validAccounts], "onAccountsChanged")
    IN IF R1.raised THEN R1
       ELSE IF validAccounts = <<>> THEN ResetOnNoAccounts(R1)
       ELSE IF WindowHas("ethereum") THEN detectProvidersCallback(R1) ELSE R1

\* src/src/useWeb3Provider.ts handleGlobalChainChanged
handleGlobalChainChanged(R, newChainId) ==
    IF Truthy(newChainId) /\ IsString(newChainId)
    THEN Invoke([R EXCEPT !.chainId = newChainId], "onChainChanged")
    ELSE R

\* src/src/useWeb3Provider.ts handleEthereumEvent: the cleanup list holds the
\* closures of the object the handler is on, so listeners are not set up again
handleEthereumEvent(R) == detectProvidersCallback(R)

\* src/dist/providerUtils.js handleAccountsChanged: the list passed to the callback
ValidAccounts(newAccounts) ==
    LET accountsArray == IF IsArray(newAccounts) THEN newAccounts.v
                         ELSE IF Truthy(newAccounts) THEN <<newAccounts>> ELSE <<>>
    IN SelectSeq(accountsArray,
                 LAMBDA a : Truthy(a) /\ IsString(a) /\ isValidAddress(a))

\* an onAccountsChanged that stores the list and never resets the connection
onAccountsChangedKeepsConnection(R, newAccounts) ==
    [R EXCEPT !.accounts = StringsOf(newAccounts)]

\* src/src/useWeb3Provider.ts connect, onAccountsChanged
onAccountsChanged(R, newAccounts) ==
    LET validAccounts == StringsOf(newAccounts)
        R1 == Invoke([R EXCEPT !.accounts = validAccounts], "onAccountsChanged")
    IN IF R1.raised THEN R1
       ELSE IF validAccounts = <<>> THEN ResetOnNoAccounts(R1) ELSE R1

\* src/dist/providerUtils.js setupProviderEventListeners: the catch block of a
\* handler, entered when its try block raised
HandlerCatch(R, message) ==
    IF R.raised THEN handleError(R, Web3ProviderError(message, "INTERNAL_ERROR", ""))
    ELSE R

\* src/dist/providerUtils.js handleAccountsChanged
handleAccountsChanged(R, newAccounts) ==
    HandlerCatch(onAccountsChanged(R, ValidAccounts(newAccounts)),
                 "Error handling accounts changed event")

\* src/src/useWeb3Provider.ts connect, onChainChanged
onChainChanged(R, newChainId) ==
    IF Truthy(newChainId) /\ IsString(newChainId)
    THEN Invoke([R EXCEPT !.chainId = newChainId], "onChainChanged")
    ELSE R

\* src/dist/providerUtils.js handleChainChanged; config.onError is connect's
\* onError, which calls handleError
handleChainChanged(R, newChainId) ==
    HandlerCatch(
        IF Truthy(newChainId) /\ IsString(newChainId)
        THEN IF isValidChainId(newChainId)
             THEN onChainChanged(R, newChainId)
             ELSE handleError(R, Web3ProviderError("Invalid chain ID format received",
                                                   "NETWORK_ERROR", ""))
        ELSE handleError(R, Web3ProviderError("Invalid chain ID data type",
                                              "NETWORK_ERROR", "")),
        "Error handling chain changed event")

\* src/src/useWeb3Provider.ts connect, onDisconnect
onDisconnect(R, err) ==
    Invoke([R EXCEPT !.error = Web3ProviderError(OrElse(err.message, "Provider disconnected"),
                                                 "NETWORK_ERROR", ""),
                     !.status = "disconnected",
                     !.currentProvider = NoProvider,
                     !.accounts = <<>>,
                     !.chainId = Null],
           "onDisconnect")

\* src/dist/providerUtils.js handleDisconnect
handleDisconnect(R, err) ==
    HandlerCatch(onDisconnect(R, err), "Error handling disconnect event")

\* one handler invoked with the payload of the event
RunHandler(R, h, payload) ==
    CASE h.fn = "handleGlobalAccountsChanged" -> handleGlobalAccountsChanged(R, payload)
      [] h.fn = "handleGlobalChainChanged" -> handleGlobalChainChanged(R, payload)
      [] h.fn = "handleEthereumEvent" -> handleEthereumEvent(R)
      [] h.fn = "handleAccountsChanged" -> handleAccountsChanged(R, payload)
      [] h.fn = "handleChainChanged" -> handleChainChanged(R, payload)
      [] h.fn = "handleDisconnect" -> handleDisconnect(R, payload.v[1])
      [] OTHER -> R

\* the endpoint calls the handlers of the event in registration order, up to
\* the first that lets an exception out
RECURSIVE RunHandlers(_, _, _)
RunHandlers(R, hs, payload) ==
    IF hs = <<>> \/ R.raised THEN R
    ELSE RunHandlers(RunHandler(R, Head(hs), payload), Tail(hs), payload)

(***************************************************************************)
(* A connect() invocation: the frame of the async function.  pc is the     *)
(* await it is suspended at.  overlaps, scans, delays, sent and seen        *)
(* record what the invocation did and saw, for the claims.                 *)
(***************************************************************************)
\* the first and the second connect() invocation of a behaviour
Calls == {1, 2}

IdleFrame ==
    [pc |-> "idle", name |-> NoProvider, attempt |-> 0, handle |-> NoHandle,
     accs |-> Null, chain |-> Null, err |-> NoError,
     overlaps |-> FALSE, scans |-> 0, delays |-> <<>>, sent |-> 0, seen |-> Undefined]

InFlight(f) == f.pc \notin {"idle", "resolved", "rejected"}

BackoffBaseMs == 1000
BackoffCapMs == 10000

RECURSIVE Pow2(_)
Pow2(n) == IF n = 0 THEN 1 ELSE 2 * Pow2(n - 1)
Min(a, b) == IF a < b THEN a ELSE b

\* a backoff without the cap
BackoffDelayUncapped(attempt) == BackoffBaseMs * Pow2(attempt)

\* src/src/useWeb3Provider.ts retryOperation: Math.min(1000 * Math.pow(2, attempt), 10000)
BackoffDelay(attempt) == Min(BackoffBaseMs * Pow2(attempt), BackoffCapMs)

\* src/src/useWeb3Provider.ts retryOperation: attempt === maxRetries
RetryExhausted(attempt) == attempt = maxRetries

\* src/src/useWeb3Provider.ts connect, the catch and finally blocks
ConnectCatch(R, err) ==
    [handleError(R, err) EXCEPT !.status = "error", !.isConnecting = FALSE,
                                !.raised = FALSE]

\* a commit that leaves the account list as it was
ConnectCommitKeepsAccounts(R, f) ==
    [R EXCEPT !.currentProvider = f.name,
              !.chainId = f.chain,
              !.status = "connected",
              !.error = NoError,
              !.isConnecting = FALSE]

\* src/src/useWeb3Provider.ts connect, the state update after retryOperation returns
ConnectCommit(R, f) ==
    [R EXCEPT !.currentProvider = f.name,
              !.accounts = f.accs.v,
              !.chainId = f.chain,
              !.status = "connected",
              !.error = NoError,
              !.isConnecting = FALSE]

\* src/src/useWeb3Provider.ts retryOperation, the catch block: the attempt of
\* frame f threw err
AttemptFailed(R, f, err) ==
    IF RetryExhausted(f.attempt)
    THEN [R |-> ConnectCatch(R, err),
          f |-> [f EXCEPT !.pc = "rejected",
                          !.err = IF handleError(R, err).raised THEN CallbackError ELSE err,
                          !.accs = Null, !.chain = Null,
                          !.sent = 0, !.seen = Undefined]]
    ELSE [R |-> R,
          f |-> [f EXCEPT !.pc = "backoff", !.err = NoError,
                          !.delays = Append(@, BackoffDelay(f.attempt))]]

\* src/src/useWeb3Provider.ts retryOperation returned: connect commits and resolves
AttemptSucceeded(R, f) ==
    [R |-> ConnectCommit(R, f),
     f |-> [f EXCEPT !.pc = "resolved", !.err = NoError, !.seen = Undefined]]

\* a frame whose attempt has thrown err ("failed") or returned ("returned")
Thrown(f, err) == [f EXCEPT !.pc = "failed", !.err = err]

Settle(R, f) ==
    CASE f.pc = "failed" -> AttemptFailed(R, f, f.err)
      [] f.pc = "returned" -> AttemptSucceeded(R, f)
      [] OTHER -> [R |-> R, f |-> f]

IsMetaMask(p) == p = "ethereum" /\ shape[p].marker = "true"

\* src/src/useWeb3Provider.ts connect, the operation passed to retryOperation, up
\* to its first await (the wrapped eth_requestAccounts is in flight)
AttemptStart(R, H, cleanup, c, f) ==
    LET R1 == detectProvidersCallback(R)
        latestProviders == Scanned
        hit == {i \in 1..Len(latestProviders) : latestProviders[i].name = f.name}
        f1 == [f EXCEPT !.scans = @ + 1, !.sent = 0, !.accs = Null, !.chain = Null,
                        !.err = NoError, !.seen = Undefined]
        caught(R2) == [R2 EXCEPT !.raised = FALSE]
    IN IF R1.raised
       THEN [R |-> caught(R1), H |-> H, cleanup |-> cleanup,
             f |-> Thrown(f1, CallbackError)]
       ELSE IF hit = {}
       THEN [R |-> R1, H |-> H, cleanup |-> cleanup,
             f |-> Thrown(f1, ProviderNotFoundError(f.name))]
       ELSE LET p == latestProviders[CHOOSE i \in hit : TRUE].provider
                H1 == RunCleanup(cleanup, H)
                su == setupProviderEventListeners(p, <<c, f.attempt>>, H1)
                R2 == IF su.failed THEN handleError(R1, AttachError) ELSE R1
            IN IF R2.raised
               THEN [R |-> caught(R2), H |-> su.handlers, cleanup |-> cleanup,
                     f |-> Thrown([f1 EXCEPT !.handle = p], CallbackError)]
               ELSE [R |-> R2,
                     H |-> su.handlers,
                     cleanup |-> su.cleanup,
                     f |-> [f1 EXCEPT !.pc = "acc1", !.handle = p, !.sent = 1]]

(***************************************************************************)
(* requestAccounts (src/src/walletActions.ts), one await at a time.  The   *)
(* frame's err holds primaryError while the direct fallback is in flight   *)
(* (acc2) and the error of the outer catch while the second direct         *)
(* fallback is in flight (acc3).                                           *)
(***************************************************************************)
NoAccountsError ==
    Web3ProviderError("No accounts returned from provider", "UNAUTHORIZED",
                      "eth_requestAccounts")
DirectNoAccountsError ==
    Web3ProviderError("Direct request returned no accounts", "UNAUTHORIZED",
                      "eth_requestAccounts")
SelectionDialogError ==
    Web3ProviderError("MetaMask provider selection dialog failed", "USER_REJECTED", "")
EvmAskError ==
    Web3ProviderError("MetaMask internal error", "INTERNAL_ERROR", "")
UserRejectionError ==
    Web3ProviderError("User rejected the request", "USER_REJECTED", "eth_requestAccounts")

AllStrings(seq) == \A i \in 1..Len(seq) : IsString(seq[i])

\* src/src/walletActions.ts requestAccounts, the outer catch
OuterCatch(f, err) ==
    IF err.code = "4001"
    THEN Thrown(f, UserRejectionError)
    ELSE [f EXCEPT !.pc = "acc3", !.err = err, !.sent = @ + 1]

\* src/src/walletActions.ts requestAccounts, catch (fallbackError)
FallbackCatch(f, fallbackError) ==
    LET primaryError == f.err
    IN OuterCatch(f, IF \/ fallbackError.message \in EvmAskMessages
                        \/ primaryError.message \in EvmAskMessages
                     THEN EvmAskError
                     ELSE primaryError)

\* src/src/walletActions.ts requestAccounts, from the accounts check to the return
AfterAccounts(f, accs) ==
    IF ~IsArray(accs) \/ Len(accs.v) = 0 THEN OuterCatch(f, NoAccountsError)
    ELSE IF ~AllStrings(accs.v) THEN OuterCatch(f, TypeError)
    ELSE IF /\ shape[f.handle].setAddress
            /\ Truthy(accs.v[1])
            /\ isValidAddress(accs.v[1])
         THEN [f EXCEPT !.pc = "setAddress", !.accs = accs, !.err = NoError]
         ELSE [f EXCEPT !.pc = "chain1", !.accs = accs, !.err = NoError]

\* a requestAccounts that asks the endpoint directly as well when the wrapped
\* request has returned
WrappedAccountsSettledAsksAgain(f, response) ==
    [f EXCEPT !.pc = "acc2",
              !.err = safeProviderRequest(response, "eth_requestAccounts").err,
              !.sent = @ + 1]

\* src/src/walletActions.ts requestAccounts: the wrapped request settled
WrappedAccountsSettled(f, response) ==
    LET out == safeProviderRequest(response, "eth_requestAccounts")
    IN IF out.ok THEN AfterAccounts(f, out.value)
       ELSE [f EXCEPT !.pc = "acc2", !.err = out.err, !.sent = @ + 1]

\* src/src/walletActions.ts requestAccounts: the direct fallback settled
DirectAccountsSettled(f, response) ==
    IF response.kind = "resolve"
    THEN IF IsArray(response.value) /\ Len(response.value.v) > 0
         THEN AfterAccounts(f, response.value)
         ELSE FallbackCatch(f, DirectNoAccountsError)
    ELSE LET err == response.err
         IN FallbackCatch(f, IF err.message = "" THEN TypeError
                             ELSE IF err.message \in EvmAskMessages /\ IsMetaMask(f.handle)
                                  THEN SelectionDialogError
                                  ELSE err)

\* src/src/walletActions.ts requestAccounts: the second direct fallback settled
SecondDirectAccountsSettled(f, response) ==
    IF /\ response.kind = "resolve"
       /\ IsArray(response.value)
       /\ AllStrings(response.value.v)
    THEN [f EXCEPT !.pc = "chain1", !.accs = response.value, !.err = NoError]
    ELSE Thrown(f, Web3ProviderError(OrElse(f.err.message, "Failed to request accounts"),
                                     "JSON_RPC_ERROR", "eth_requestAccounts"))

\* src/src/useWeb3Provider.ts connect: the direct eth_chainId request settled
DirectChainSettled(f, response) ==
    IF response.kind = "resolve"
    THEN [f EXCEPT !.pc = "returned", !.chain = response.value, !.err = NoError]
    ELSE [f EXCEPT !.pc = "chain2", !.err = response.err]

\* src/src/useWeb3Provider.ts connect: the safeProviderRequest fallback settled
WrappedChainSettled(f, response) ==
    LET out == safeProviderRequest(response, "eth_chainId")
    IN IF out.ok
       THEN [f EXCEPT !.pc = "returned", !.chain = out.value, !.err = NoError]
       ELSE Thrown(f, Web3ProviderError(OrElse(f.err.message, "Failed to get chain ID"),
                                        "JSON_RPC_ERROR", "eth_chainId"))

\* what the model's endpoints answer
UserRejection == RawError("4001", "")
EvmAskFailure == RawError("-32603", "evmAsk.js failure")
AccountAnswers ==
    {Resolve(Arr(<<AddrA>>)), Resolve(Arr(<<>>)), Reject(UserRejection),
     Reject(EvmAskFailure)}
ChainAnswers == {Resolve(Chain1), Resolve(Null), Reject(UserRejection)}

\* the frame after the endpoint's answer to the request it awaits
Answered(f, response) ==
    CASE f.pc = "acc1" -> WrappedAccountsSettled(f, response)
      [] f.pc = "acc2" -> DirectAccountsSettled(f, response)
      [] f.pc = "acc3" -> SecondDirectAccountsSettled(f, response)
      [] f.pc = "chain1" -> DirectChainSettled(f, response)
      [] f.pc = "chain2" -> WrappedChainSettled(f, response)
      [] OTHER -> f

(***************************************************************************)
(* The state machine.                                                      *)
(***************************************************************************)
Log(R, answer) ==
    [onErrors |-> R.onErrors, notified |-> R.notified, raised |-> R.raised,
     answer |-> answer]
\* the step was no answer of an endpoint
NoAnswer == [kind |-> "none", value |-> Null, err |-> NoError]

\* no closure of setupProviderEventListeners is held
NothingHeld == [cleanup |-> NoCleanup, attached |-> 0, called |-> 0]

\* the safeProviderRequest call of the host before it is made
NoOutcome == [ok |-> FALSE, value |-> Null, err |-> NoError]
IdleRequest ==
    [pc |-> "idle", method |-> "", raw |-> NoAnswer, outcome |-> NoOutcome,
     late |-> NoAnswer]

\* the shapes the endpoint objects of the model are drawn from
FullShape == EndpointShape("ok", TRUE, FALSE, FALSE, "true")
SetAddressShape == EndpointShape("ok", TRUE, FALSE, TRUE, "absent")
NoRemoveShape == EndpointShape("ok", FALSE, FALSE, FALSE, "true")
RemoveAllShape == EndpointShape("ok", FALSE, TRUE, FALSE, "true")
RequestOnlyShape == EndpointShape("absent", FALSE, FALSE, FALSE, "true")
ThrowingOnShape == EndpointShape("throws", TRUE, FALSE, FALSE, "true")
\* an endpoint whose request rejects with {code: 4001} on every call
RejectingShape == [FullShape EXCEPT !.rejects = TRUE]

\* a host: which endpoint objects are injected at mount, and their shapes
HostOf(isPresent, ethereumShape) ==
    [present |-> isPresent, throwing |-> {},
     shape |-> [p \in Handles |-> IF p = "ethereum" THEN ethereumShape ELSE SetAddressShape]]

AllPresent == [p \in Handles |-> TRUE]
OnlyCustomWallet == [p \in Handles |-> p = "customWallet"]

ConnectNames == {"customwallet", "metamask"}

\* src/src/useWeb3Provider.ts useState initial values
FirstRender ==
    [providers |-> <<>>, currentProvider |-> NoProvider, accounts |-> <<>>,
     chainId |-> Null, status |-> "disconnected", error |-> NoError,
     isConnecting |-> FALSE, onErrors |-> 0, notified |-> 0, raised |-> FALSE]

\* the state after the hook is mounted: the initial scan has run and the
\* mount effect has put its handlers on the endpoint objects present
InitOf(Hosts, Retries, Overlap, Callers) ==
    /\ \E host \in Hosts :
          present = host.present /\ shape = host.shape /\ config = host.throwing
    /\ mounted = TRUE
    /\ handlers = [p \in Handles |-> GlobalHandlers(p)]
    /\ LET R == detectProvidersCallback(FirstRender)
       IN /\ providers = R.providers
          /\ currentProvider = R.currentProvider
          /\ accounts = R.accounts
          /\ chainId = R.chainId
          /\ status = R.status
          /\ error = R.error
          /\ isConnecting = R.isConnecting
    /\ cleanupRef = NoCleanup
    /\ maxRetries \in Retries
    /\ overlap = Overlap
    /\ callers = Callers
    /\ calls = [c \in Calls |-> IdleFrame]
    /\ pendingAction = 0
    /\ held = NothingHeld
    /\ probe = [pc |-> "idle", input |-> Null, valid |-> FALSE]
    /\ request = IdleRequest
    /\ log = Log(ReactState, NoAnswer)

Host == UNCHANGED <<present, shape, maxRetries, overlap, callers, config, mounted, held, probe, request>>

\* src/src/useWeb3Provider.ts connect: the call, up to the first await
Connect(c, name) ==
    /\ mounted
    /\ c \in callers
    /\ calls[c].pc = "idle"
    /\ \A d \in Calls : d < c => calls[d].pc # "idle"
    /\ overlap \/ \A d \in Calls : ~InFlight(calls[d])
    /\ LET R0 == [ReactState EXCEPT !.isConnecting = TRUE, !.error = NoError,
                                    !.status = "connecting"]
           st == AttemptStart(R0, handlers, cleanupRef, c,
                              [IdleFrame EXCEPT !.name = name,
                                                !.overlaps = \E d \in Calls :
                                                                InFlight(calls[d])])
           se == Settle(st.R, st.f)
       IN /\ Render(se.R)
          /\ handlers' = st.H
          /\ cleanupRef' = st.cleanup
          /\ calls' = [calls EXCEPT ![c] = se.f]
          /\ log' = Log(se.R, NoAnswer)
    /\ UNCHANGED pendingAction
    /\ Host

\* the backoff timer of retryOperation fires: the next attempt starts
BackoffElapsed(c) ==
    /\ calls[c].pc = "backoff"
    /\ LET st == AttemptStart(ReactState, handlers, cleanupRef, c,
                              [calls[c] EXCEPT !.attempt = @ + 1])
           se == Settle(st.R, st.f)
       IN /\ Render(se.R)
          /\ handlers' = st.H
          /\ cleanupRef' = st.cleanup
          /\ calls' = [calls EXCEPT ![c] = se.f]
          /\ log' = Log(se.R, NoAnswer)
    /\ UNCHANGED pendingAction
    /\ Host

AnswersAt(pc) ==
    CASE pc = "acc1" -> AccountAnswers \cup {Silent}
      [] pc \in {"acc2", "acc3"} -> AccountAnswers
      [] pc = "chain1" -> ChainAnswers
      [] pc = "chain2" -> ChainAnswers \cup {Silent}
      [] OTHER -> {}

\* the request a connect() call awaits settles (for a wrapped request, Silent is
\* the timer of the race firing first)
EndpointAnswers(c, response) ==
    /\ response \in AnswersAt(calls[c].pc)
    /\ shape[calls[c].handle].rejects => response = Reject(UserRejection)
    /\ LET se == Settle(ReactState, Answered(calls[c], response))
       IN /\ Render(se.R)
          /\ calls' = [calls EXCEPT ![c] = se.f]
          /\ log' = Log(se.R, response)
    /\ UNCHANGED <<handlers, cleanupRef, pendingAction>>
    /\ Host

\* src/src/walletActions.ts requestAccounts: the race of setAddress and its
\* 5-second timer settles, either way
SetAddressSettles(c) ==
    /\ calls[c].pc = "setAddress"
    /\ calls' = [calls EXCEPT ![c].pc = "chain1"]
    /\ log' = Log(ReactState, NoAnswer)
    /\ UNCHANGED <<providers, currentProvider, accounts, chainId, status, error,
                   isConnecting, handlers, cleanupRef, pendingAction>>
    /\ Host

\* a disconnect that forgets to empty the account list
disconnectKeepsAccounts(R) ==
    IF R.currentProvider = NoProvider
    THEN R
    ELSE [R EXCEPT !.currentProvider = NoProvider, !.chainId = Null,
                   !.status = "disconnected", !.error = NoError]

\* src/src/useWeb3Provider.ts disconnect: the React state it leaves
disconnect(R) ==
    IF R.currentProvider = NoProvider
    THEN R
    ELSE [R EXCEPT !.currentProvider = NoProvider, !.accounts = <<>>,
                   !.chainId = Null, !.status = "disconnected", !.error = NoError]

\* src/src/useWeb3Provider.ts disconnect: the call; without a current
\* provider it returns at once and nothing changes
Disconnect ==
    IF currentProvider = NoProvider
    THEN UNCHANGED vars
    ELSE /\ handlers' = RunCleanup(cleanupRef, handlers)
         /\ cleanupRef' = NoCleanup
         /\ Render(disconnect(ReactState))
         /\ log' = Log(ReactState, NoAnswer)
         /\ UNCHANGED <<calls, pendingAction>>
         /\ Host

\* src/src/useWeb3Provider.ts clearError
ClearError ==
    /\ Render([ReactState EXCEPT !.error = NoError,
                                 !.status = IF status = "error" THEN "disconnected" ELSE @])
    /\ log' = Log(ReactState, NoAnswer)
    /\ UNCHANGED <<handlers, cleanupRef, calls, pendingAction>>
    /\ Host

\* the interval timer or refreshProviders runs detectProvidersCallback
Scan ==
    /\ mounted
    /\ LET R == detectProvidersCallback(ReactState)
       IN Render(R) /\ log' = Log(R, NoAnswer)
    /\ UNCHANGED <<handlers, cleanupRef, calls, pendingAction>>
    /\ Host

\* src/src/useWeb3Provider.ts, the cleanup of the mount effect: the interval
\* timer is cleared, the stored detach closure is called and forgotten, and
\* the handlers of the mount effect are removed with removeListener where the
\* object has one
Unmount ==
    /\ mounted
    /\ mounted' = FALSE
    /\ handlers' = LET H == RunCleanup(cleanupRef, handlers)
                   IN [p \in Handles |->
                          IF shape[p].removeListener
                          THEN SelectSeq(H[p], LAMBDA h : h.sub # GlobalSub)
                          ELSE H[p]]
    /\ cleanupRef' = NoCleanup
    /\ log' = Log(ReactState, NoAnswer)
    /\ UNCHANGED <<present, shape, maxRetries, overlap, callers, config, providers,
                   currentProvider, accounts, chainId, status, error, isConnecting,
                   calls, pendingAction, held, probe, request>>

\* the host injects the endpoint object window[p] after the mount
Inject(p) ==
    /\ ~present[p]
    /\ present' = [present EXCEPT ![p] = TRUE]
    /\ log' = Log(ReactState, NoAnswer)
    /\ UNCHANGED <<shape, maxRetries, overlap, callers, config, mounted, handlers, providers, currentProvider, accounts,
                   chainId, status, error, isConnecting, cleanupRef, calls,
                   pendingAction, held, probe, request>>

\* payloads of the events the model's endpoints emit
ErrVal(e) == [t |-> "error", v |-> <<e>>]
Payloads(ev) ==
    CASE ev = "accountsChanged" -> {Arr(<<AddrB>>), Arr(<<>>), Arr(<<NotAnAddress>>)}
      [] ev = "chainChanged" -> {Chain2, ChainZero}
      [] ev = "disconnect" -> {ErrVal(RawError("4900", "Disconnected"))}
      [] OTHER -> {Null}
Events == {"accountsChanged", "chainChanged", "disconnect", "connect"}
\* payloads outside EIP-1193 that an endpoint of the malformed kind emits: a
\* single address instead of a list, and null
MalformedPayloads(ev) ==
    CASE ev = "accountsChanged" -> {AddrB, Null}
      [] ev = "chainChanged" -> {Null}
      [] OTHER -> {}

HandlersFor(p, ev) == SelectSeq(handlers[p], LAMBDA h : h.ev = ev)

\* the attempt of frame f has its handlers of the event on window[p]
Subscribed(c, p, ev) ==
    \E i \in 1..Len(handlers[p]) :
        handlers[p][i].ev = ev /\ handlers[p][i].sub = <<c, calls[c].attempt>>

\* the endpoint object window[p] emits an event: it calls every handler
\* registered for it, in registration order
Emit(p, ev, payload) ==
    /\ present[p]
    /\ \/ payload \in Payloads(ev)
       \/ shape[p].malformed /\ payload \in MalformedPayloads(ev)
    /\ HandlersFor(p, ev) # <<>>
    /\ LET R == RunHandlers(ReactState, HandlersFor(p, ev), payload)
       IN Render(R) /\ log' = Log(R, NoAnswer)
    /\ calls' = [c \in Calls |->
                    IF /\ ev = "accountsChanged"
                       /\ calls[c].pc \in {"setAddress", "chain1", "chain2"}
                       /\ Subscribed(c, p, ev)
                    THEN [calls[c] EXCEPT !.seen = Arr(ValidAccounts(payload))]
                    ELSE calls[c]]
    /\ UNCHANGED <<handlers, cleanupRef, pendingAction>>
    /\ Host

\* src/src/useWeb3Provider.ts walletActions: a wrapped action is called
WalletActionCalled ==
    /\ currentProvider # NoProvider
    /\ pendingAction < MaxPending
    /\ pendingAction' = pendingAction + 1
    /\ log' = Log(ReactState, NoAnswer)
    /\ UNCHANGED <<handlers, providers, currentProvider, accounts, chainId, status,
                   error, isConnecting, cleanupRef, calls>>
    /\ Host

WalletActionErrors ==
    {ClassifyError(UserRejection, "eth_sendTransaction"),
     ClassifyError(TimeoutError, "eth_getBalance")}

\* src/src/useWeb3Provider.ts walletActions, the catch of a wrapped action
WalletActionFailed(err) ==
    /\ pendingAction > 0
    /\ pendingAction' = pendingAction - 1
    /\ LET R == handleError(ReactState, err)
       IN Render(R) /\ log' = Log(R, NoAnswer)
    /\ UNCHANGED <<handlers, cleanupRef, calls>>
    /\ Host

\* a wrapped action returns its value
WalletActionReturned ==
    /\ pendingAction > 0
    /\ pendingAction' = pendingAction - 1
    /\ log' = Log(ReactState, NoAnswer)
    /\ UNCHANGED <<handlers, providers, currentProvider, accounts, chainId, status,
                   error, isConnecting, cleanupRef, calls>>
    /\ Host

Next ==
    \/ \E c \in Calls, name \in ConnectNames : Connect(c, name)
    \/ \E c \in Calls : BackoffElapsed(c)
    \/ \E c \in Calls, response \in AccountAnswers \cup ChainAnswers \cup {Silent} :
            EndpointAnswers(c, response)
    \/ \E c \in Calls : SetAddressSettles(c)
    \/ Disconnect
    \/ ClearError
    \/ Scan
    \/ \E p \in Handles : Inject(p)
    \/ \E p \in Handles, ev \in Events, payload \in UNION {Payloads(e) : e \in Events} :
            Emit(p, ev, payload)
    \/ WalletActionCalled
    \/ \E err \in WalletActionErrors : WalletActionFailed(err)
    \/ WalletActionReturned

(***************************************************************************)
(* Spec: the life of one connection.  One connect() call with one retry,   *)
(* against every event, scan, disconnect, clearError and wallet-action     *)
(* failure the host and the endpoints can interleave with it.              *)
(***************************************************************************)
\* mergedConfig.maxRetries in Spec and SpecTwo
FewRetries == 1
LifecycleHosts ==
    {HostOf(AllPresent, FullShape), HostOf(AllPresent, NoRemoveShape),
     HostOf(AllPresent, RequestOnlyShape), HostOf(OnlyCustomWallet, ThrowingOnShape)}

Spec == InitOf(LifecycleHosts, {FewRetries}, FALSE, {1}) /\ [][Next]_vars

(***************************************************************************)
(* SpecRetry: the retry loop.  One connect() call under the default and a  *)
(* larger retry budget, against every answer of the endpoint; the endpoint *)
(* may be injected while the call is in flight.                            *)
(***************************************************************************)
\* src/src/constants.ts DEFAULT_CONFIG.maxRetries
DefaultMaxRetries == 3

RetryHosts ==
    {HostOf(AllPresent, FullShape), HostOf([p \in Handles |-> FALSE], FullShape),
     HostOf(AllPresent, ThrowingOnShape), HostOf(AllPresent, RejectingShape)}

NextRetry ==
    \/ \E c \in Calls, name \in ConnectNames : Connect(c, name)
    \/ \E c \in Calls : BackoffElapsed(c)
    \/ \E c \in Calls, response \in AccountAnswers \cup ChainAnswers \cup {Silent} :
            EndpointAnswers(c, response)
    \/ \E c \in Calls : SetAddressSettles(c)
    \/ \E p \in Handles : Inject(p)

SpecRetry == InitOf(RetryHosts, {DefaultMaxRetries, MaxRetriesCfg}, FALSE, {1}) /\ [][NextRetry]_vars

\* SpecRetry where every timer that is running fires in the end: the backoff
\* timer of retryOperation, the timer of createTimeoutPromise behind a wrapped
\* request and the 5-second timer of the setAddress race.  Nothing makes an
\* endpoint answer.
SpecRetryTimersFire ==
    /\ SpecRetry
    /\ WF_vars(\E c \in Calls : BackoffElapsed(c))
    /\ WF_vars(\E c \in Calls : EndpointAnswers(c, Silent))
    /\ WF_vars(\E c \in Calls : SetAddressSettles(c))

(***************************************************************************)
(* SpecTwo: two connect() calls that overlap or follow each other, with    *)
(* disconnect() between them.                                              *)
(***************************************************************************)
TwoHosts ==
    {HostOf(AllPresent, FullShape), HostOf(AllPresent, NoRemoveShape),
     HostOf(AllPresent, RemoveAllShape)}

NextTwo ==
    \/ \E c \in Calls, name \in ConnectNames : Connect(c, name)
    \/ \E c \in Calls : BackoffElapsed(c)
    \/ \E c \in Calls, response \in AccountAnswers \cup ChainAnswers \cup {Silent} :
            EndpointAnswers(c, response)
    \/ \E c \in Calls : SetAddressSettles(c)
    \/ Disconnect

SpecTwo == InitOf(TwoHosts, {FewRetries}, TRUE, Calls) /\ [][NextTwo]_vars

(***************************************************************************)
(* SpecRequest: the safe request wrapper on its own.  The host makes one   *)
(* safeProviderRequest call at a time; the endpoint resolves it, rejects   *)
(* it, throws from request(), or stays silent until the timer fires and    *)
(* settles the abandoned request afterwards.                               *)
(***************************************************************************)
RequestMethods == {"eth_chainId", "eth_requestAccounts", "eth_getBalance"}

\* what the endpoints of the model resolve a request with
RawResults ==
    {Chain1, Arr(<<AddrA>>), Null, Undefined, Obj(<<>>),
     Obj(<<<<"type", Chain1>>>>),
     Obj(<<<<"result", Arr(<<AddrA>>)>>>>),
     Obj(<<<<"data", Arr(<<AddrA>>)>>>>),
     Obj(<<<<"result", Chain1>>, <<"data", Chain2>>>>),
     Obj(<<<<"data", Chain2>>, <<"result", Chain1>>>>),
     Obj(<<<<"result", Null>>, <<"data", Chain2>>>>),
     Obj(<<<<"result", Undefined>>, <<"data", Chain2>>>>),
     Obj(<<<<"result", Undefined>>>>),
     Obj(<<<<"data", Undefined>>>>)}

\* what the endpoints of the model reject a request with, or throw from
\* request(): objects with and without a code and a message (a primitive
\* such as a string has neither), and null or undefined
RawFailures ==
    {RawError("4001", "User denied"), RawError("4100", "Not authorized"),
     RawError("4200", "No such method"), RawError("4900", "Disconnected"),
     RawError("4901", "Chain not connected"), RawError("-32603", "Internal error"),
     RawError("", "boom"), RawError("", ""), NullishError}

RawResponses ==
    {Resolve(v) : v \in RawResults} \cup {Reject(e) : e \in RawFailures}
        \cup {Throws(e) : e \in RawFailures}

\* nothing of the hook is touched by the wrapper
ConnectionUntouched ==
    UNCHANGED <<present, shape, maxRetries, overlap, callers, config, mounted, handlers, providers,
                currentProvider, accounts, chainId, status, error, isConnecting,
                cleanupRef, calls, pendingAction, held, probe>>

\* src/dist/providerUtils.js safeProviderRequest: the host calls the wrapper
RequestCalled(method) ==
    /\ request.pc \in {"idle", "settled"}
    /\ request' = [IdleRequest EXCEPT !.pc = "pending", !.method = method]
    /\ log' = Log(ReactState, NoAnswer)
    /\ ConnectionUntouched

\* src/dist/providerUtils.js safeProviderRequest: request() throws, or its
\* promise settles before the timer
RequestSettles(response) ==
    /\ request.pc = "pending"
    /\ request' = [request EXCEPT !.pc = "settled", !.raw = response,
                                   !.outcome = safeProviderRequest(response, request.method)]
    /\ log' = Log(ReactState, response)
    /\ ConnectionUntouched

\* src/dist/providerUtils.js createTimeoutPromise: the timer wins the race
TimerFires ==
    /\ request.pc = "pending"
    /\ request' = [request EXCEPT !.pc = "timedout", !.raw = Silent,
                                   !.outcome = safeProviderRequest(Silent, request.method)]
    /\ log' = Log(ReactState, Silent)
    /\ ConnectionUntouched

\* the promise that lost the race settles: Promise.race has settled already
\* and nothing else holds a reaction on it
AbandonedSettles(response) ==
    /\ request.pc = "timedout"
    /\ response.kind \in {"resolve", "reject"}
    /\ request' = [request EXCEPT !.pc = "settled", !.late = response]
    /\ log' = Log(ReactState, response)
    /\ ConnectionUntouched

RequestHosts == {HostOf(AllPresent, FullShape)}

NextRequest ==
    \/ \E method \in RequestMethods : RequestCalled(method)
    \/ \E response \in RawResponses : RequestSettles(response)
    \/ TimerFires
    \/ \E response \in RawResponses : AbandonedSettles(response)

SpecRequest == InitOf(RequestHosts, {FewRetries}, FALSE, {}) /\ [][NextRequest]_vars

(***************************************************************************)
(* SpecListeners: setupProviderEventListeners on its own.  A caller        *)
(* attaches to an endpoint object, keeps the closure it got back and calls *)
(* it any number of times; the handlers of the mount effect are on the     *)
(* object as well.                                                         *)
(***************************************************************************)
\* attach calls of one behaviour
MaxAttach == 2
\* calls of one returned closure
MaxDetachCalls == 2

\* src/dist/providerUtils.js setupProviderEventListeners: the call
Attach(p) ==
    /\ present[p]
    /\ held.attached < MaxAttach
    /\ LET sub == <<0, held.attached + 1>>
           st == setupProviderEventListeners(p, sub, handlers)
       IN /\ handlers' = st.handlers
          /\ held' = [cleanup |-> st.cleanup, attached |-> held.attached + 1,
                      called |-> 0]
    /\ log' = Log([ReactState EXCEPT !.onErrors = IF shape[p].on = "throws" THEN 1 ELSE 0],
                  NoAnswer)
    /\ UNCHANGED <<present, shape, maxRetries, overlap, callers, config, mounted, providers,
                   currentProvider, accounts, chainId, status, error, isConnecting,
                   cleanupRef, calls, pendingAction, probe, request>>

\* src/dist/providerUtils.js setupProviderEventListeners: the returned closure
\* is called
Detach ==
    /\ held.cleanup # NoCleanup
    /\ held.called < MaxDetachCalls
    /\ handlers' = RunCleanup(held.cleanup, handlers)
    /\ held' = [held EXCEPT !.called = @ + 1]
    /\ log' = Log(ReactState, NoAnswer)
    /\ UNCHANGED <<present, shape, maxRetries, overlap, callers, config, mounted, providers,
                   currentProvider, accounts, chainId, status, error, isConnecting,
                   cleanupRef, calls, pendingAction, probe, request>>

ListenerHosts ==
    {HostOf(AllPresent, FullShape), HostOf(AllPresent, NoRemoveShape),
     HostOf(AllPresent, RemoveAllShape), HostOf(AllPresent, RequestOnlyShape),
     HostOf(AllPresent, ThrowingOnShape)}

NextListeners ==
    \/ \E p \in Handles : Attach(p)
    \/ Detach

SpecListeners == InitOf(ListenerHosts, {FewRetries}, FALSE, {}) /\ [][NextListeners]_vars

(***************************************************************************)
(* SpecScan: provider detection on its own.  The hosts differ in which     *)
(* window properties hold an endpoint, in the value of the marker property *)
(* of window.ethereum and in what its isConnected() does; endpoints may be *)
(* injected after the mount.                                               *)
(***************************************************************************)
ScanShape(marker, isConnected) ==
    [EndpointShape("ok", TRUE, FALSE, FALSE, marker) EXCEPT !.isConnected = isConnected]

ScanHosts ==
    {HostOf(isPresent, ScanShape(marker, isConnected)) :
        isPresent \in [Handles -> BOOLEAN],
        marker \in {"absent", "true", "false", "other"},
        isConnected \in {"absent", "true", "false", "throws"}}

NextScan ==
    \/ Scan
    \/ \E p \in Handles : Inject(p)
    \/ ClearError

SpecScan == InitOf(ScanHosts, {FewRetries}, FALSE, {}) /\ [][NextScan]_vars

(***************************************************************************)
(* SpecValidate: isValidChainId on its own, called with every short string *)
(* over a few characters, with strings around the length bound and with    *)
(* values that are no strings.                                             *)
(***************************************************************************)
\* length of the short strings
MaxProbeLen == 3

ChainIdInputs ==
    {Str(s) : s \in UNION {[1..n -> {"0", "x", "1", "a", "A", "g"}] : n \in 0..MaxProbeLen}}
        \cup {Str(<<"0", "x">> \o [i \in 1..n |-> "f"]) :
                 n \in {ChainIdMaxLen - 2, ChainIdMaxLen - 1, ChainIdMaxLen + 1}}
        \cup {Str(<<"n", "o", "t", "-", "h", "e", "x">>), Str(<<"0", "x", "0", "0">>),
              AddrA, Null, Undefined, Arr(<<Chain1>>)}

\* src/dist/providerUtils.js isValidChainId: a call
Validate(x) ==
    /\ probe' = [pc |-> "checked", input |-> x, valid |-> isValidChainId(x)]
    /\ log' = Log(ReactState, NoAnswer)
    /\ UNCHANGED <<present, shape, maxRetries, overlap, callers, config, mounted, handlers, providers,
                   currentProvider, accounts, chainId, status, error, isConnecting,
                   cleanupRef, calls, pendingAction, held, request>>

NextValidate == \E x \in ChainIdInputs : Validate(x)

SpecValidate == InitOf(RequestHosts, {FewRetries}, FALSE, {}) /\ [][NextValidate]_vars

(***************************************************************************)
(* SpecCallbacks: the handlers of a connection against a host whose        *)
(* callbacks throw and an endpoint that emits malformed payloads.  One     *)
(* callback of mergedConfig throws in each host; window.ethereum is        *)
(* injected after the mount, when the mount effect has put no handler on   *)
(* it; connect() does not retry.                                           *)
(***************************************************************************)
\* mergedConfig.maxRetries in SpecCallbacks
NoRetries == 0
CallbackHosts ==
    {[HostOf(OnlyCustomWallet, [FullShape EXCEPT !.malformed = TRUE]) EXCEPT !.throwing = throwing] :
        throwing \in {{}, {"onAccountsChanged"}, {"onChainChanged"}, {"onDisconnect"},
                      {"onError"}}}

NextCallbacks ==
    \/ \E c \in Calls, name \in ConnectNames : Connect(c, name)
    \/ \E c \in Calls, response \in AccountAnswers \cup ChainAnswers \cup {Silent} :
            EndpointAnswers(c, response)
    \/ \E c \in Calls : SetAddressSettles(c)
    \/ \E p \in Handles : Inject(p)
    \/ \E p \in Handles, ev \in Events :
            \E payload \in Payloads(ev) \cup MalformedPayloads(ev) : Emit(p, ev, payload)

SpecCallbacks == InitOf(CallbackHosts, {NoRetries}, FALSE, {1}) /\ [][NextCallbacks]_vars

(***************************************************************************)
(* SpecUnmount: the component is unmounted at any moment of a connect()    *)
(* call.  The endpoints have removeListener; timers and requests that are  *)
(* pending at the unmount still fire and settle.                           *)
(***************************************************************************)
NextUnmount ==
    \/ \E c \in Calls, name \in ConnectNames : Connect(c, name)
    \/ \E c \in Calls : BackoffElapsed(c)
    \/ \E c \in Calls, response \in AccountAnswers \cup ChainAnswers \cup {Silent} :
            EndpointAnswers(c, response)
    \/ \E c \in Calls : SetAddressSettles(c)
    \/ Scan
    \/ Unmount

SpecUnmount ==
    /\ InitOf({HostOf(AllPresent, FullShape), HostOf(OnlyCustomWallet, FullShape)},
              {FewRetries}, FALSE, {1})
    /\ [][NextUnmount]_vars

(***************************************************************************)
(* The claims.                                                             *)
(***************************************************************************)
Complete == currentProvider # NoProvider /\ accounts # <<>> /\ chainId # Null

\* C1: in every reachable state, status is connected if and only if
\* currentProvider is non-null, accounts is non-empty and chainId is non-null.
C1_ConnectedIffComplete == (status = "connected") <=> Complete

\* C2: in every reachable state, if status is disconnected then currentProvider
\* is null and accounts is empty.
C2_DisconnectedIsCleared ==
    status = "disconnected" => currentProvider = NoProvider /\ accounts = <<>>

\* the per-connection subscriptions that have a handler on window[p]
Subscriptions(p) ==
    {handlers[p][i].sub : i \in 1..Len(handlers[p])} \ {GlobalSub}
HandlersOf(p, sub) == SelectSeq(handlers[p], LAMBDA h : h.sub = sub)
CanDetach(p) == shape[p].removeListener \/ shape[p].removeAllListeners

\* C3: at any time at most one per-connection listener subscription is
\* registered on a capability handle.
C3_OneSubscription == \A p \in Handles : Cardinality(Subscriptions(p)) <= 1

\* C3, amended: on a capability handle that exposes removeListener or
\* removeAllListeners at most one per-connection subscription is registered at
\* any time; it is one set of four handlers and the stored detach function is
\* its own.
C3_OneSubscriptionWhereDetachable ==
    \A p \in Handles :
        CanDetach(p) =>
            /\ Cardinality(Subscriptions(p)) <= 1
            /\ \A sub \in Subscriptions(p) :
                  /\ HandlersOf(p, sub) = SubscriptionHandlers(sub)
                  /\ cleanupRef = DetachCleanup(p, sub)

\* a retried attempt of the second call has its subscription, and only it, on
\* the handle the first call had subscribed to
C3_Witness ==
    \E p \in Handles :
        /\ CanDetach(p)
        /\ Subscriptions(p) = {<<2, 1>>}
        /\ calls[1].pc = "resolved"
        /\ calls[1].name = calls[2].name

Detected(name) == \E i \in 1..Len(detectProviders) : detectProviders[i].name = name

\* C4: connect(name) for a name no scan detects rejects with
\* PROVIDER_NOT_FOUND after exactly one scan, without retry or backoff delay.
C4_NotFoundIsNotRetried ==
    \A c \in Calls :
        calls[c].scans >= 1 /\ ~Detected(calls[c].name) =>
            /\ calls[c].pc = "rejected"
            /\ calls[c].err.code = "PROVIDER_NOT_FOUND"
            /\ calls[c].scans = 1
            /\ calls[c].delays = <<>>

\* C5: if the endpoint rejects every request with {code: 4001}, connect rejects
\* after the full retry budget with an error of kind USER_REJECTED, and status
\* is then error.
C5_UserRejectionSurfaces ==
    \A c \in Calls :
        (/\ calls[c].pc = "rejected"
         /\ calls[c].handle # NoHandle
         /\ shape[calls[c].handle].rejects) =>
            /\ calls[c].scans = maxRetries + 1
            /\ calls[c].err.code = "USER_REJECTED"
            /\ status = "error"

\* min(1000 * 2^k, 10000) for k = 0 .. n-1
ExpectedDelays(n) ==
    [k \in 1..n |-> IF 1000 * 2^(k - 1) < 10000 THEN 1000 * 2^(k - 1) ELSE 10000]

\* C6: connect() runs the attempt at most maxRetries+1 times; after a failed
\* attempt k that is not the last it waits min(1000 * 2^k, 10000) ms, and it
\* does not wait after the last attempt.
C6_RetryBudgetAndBackoff ==
    \A c \in Calls :
        LET f == calls[c]
        IN /\ f.scans <= maxRetries + 1
           /\ f.pc # "idle" => f.scans = f.attempt + 1
           /\ f.delays = ExpectedDelays(Len(f.delays))
           /\ Len(f.delays) = IF f.pc = "backoff" THEN f.attempt + 1 ELSE f.attempt
           /\ f.pc = "backoff" => f.attempt < maxRetries
           /\ f.pc = "rejected" => f.attempt = maxRetries

\* a call under the larger budget was rejected after its last attempt; the wait
\* before that attempt was the capped one
C6_Witness ==
    \E c \in Calls :
        /\ calls[c].pc = "rejected"
        /\ maxRetries = MaxRetriesCfg
        /\ calls[c].scans = MaxRetriesCfg + 1
        /\ calls[c].delays[Len(calls[c].delays)] = BackoffCapMs

\* C7: when every attempt of a connect() call fails, connect() rejects only
\* after the retry budget is exhausted; then status is error, lastError is that
\* failure and the same failure is thrown; before exhaustion status stays
\* connecting.
C7_RejectsAfterExhaustion ==
    \A c \in Calls :
        /\ InFlight(calls[c]) => status = "connecting"
        /\ calls[c].pc = "rejected" =>
              /\ calls[c].scans = maxRetries + 1
              /\ status = "error"
              /\ error = calls[c].err

FirstTry(f) == f.attempt = 0 /\ f.sent = 1
NonEmptyList(x) == IsArray(x) /\ x.v # <<>>

\* C8: if the endpoint answers the account request with a non-empty list A and
\* the chain-id request with c on the first try, connect resolves with exactly
\* A and c, and commits status connected, the endpoint's name, A, c and no error.
C8_FirstTryCommit ==
    [][\A c \in Calls :
          LET f == calls[c]
              g == calls'[c]
              answer == log'.answer
          IN /\ (/\ f.pc = "acc1" /\ FirstTry(f) /\ g # f
                 /\ answer.kind = "resolve" /\ NonEmptyList(answer.value))
                => g.accs = answer.value /\ g.pc \in {"setAddress", "chain1"}
             /\ (f.pc \in {"setAddress", "chain1"} /\ g.pc \in {"setAddress", "chain1"})
                => g.accs = f.accs
             /\ (/\ f.pc = "chain1" /\ FirstTry(f) /\ g.pc # "chain1"
                 /\ answer.kind = "resolve")
                => /\ g.pc = "resolved"
                   /\ g.accs = f.accs /\ g.chain = answer.value /\ g.name = f.name
                   /\ status' = "connected"
                   /\ currentProvider' = f.name
                   /\ accounts' = f.accs.v
                   /\ chainId' = answer.value
                   /\ error' = NoError]_vars

\* the call has just resolved on its first try with the list and the chain id
\* the endpoint answered
C8_Witness ==
    \E c \in Calls :
        /\ calls[c].pc = "resolved" /\ FirstTry(calls[c])
        /\ log.answer = Resolve(Chain1)
        /\ calls[c].accs = Arr(<<AddrA>>) /\ calls[c].chain = Chain1
        /\ status = "connected" /\ currentProvider = calls[c].name
        /\ accounts = <<AddrA>> /\ chainId = Chain1 /\ error = NoError

\* C9: if two connect() calls overlap, then once both have settled the whole
\* ConnectionState is the outcome of the call that settled last, with no field
\* left over from the other call.
C9_LastSettledWins ==
    [][\A c \in Calls :
          (/\ calls[2].overlaps
           /\ InFlight(calls[c]) /\ ~InFlight(calls'[c])
           /\ \A d \in Calls \ {c} : calls[d].pc \in {"resolved", "rejected"})
          => IF calls'[c].pc = "resolved"
             THEN /\ status' = "connected"
                  /\ currentProvider' = calls'[c].name
                  /\ accounts' = calls'[c].accs.v
                  /\ chainId' = calls'[c].chain
                  /\ error' = NoError
             ELSE /\ status' = "error"
                  /\ currentProvider' = NoProvider
                  /\ accounts' = <<>>
                  /\ chainId' = Null
                  /\ error' = calls'[c].err]_vars

\* C10: an accounts-changed event delivered to the attempt's listeners after
\* the attach and before connect() commits is not lost: the accounts after the
\* commit are those of the event, not the older handshake result.
C10_EventSurvivesCommit ==
    [][\A c \in Calls :
          (/\ calls[c].pc \in {"chain1", "chain2"}
           /\ calls'[c].pc = "resolved"
           /\ calls[c].seen # Undefined)
          => accounts' = calls[c].seen.v]_vars

\* the window property of the endpoint an identity name stands for
HandleOfName(name) ==
    LET hit == {i \in 1..Len(PROVIDER_PATTERNS) : PROVIDER_PATTERNS[i].name = name}
    IN IF hit = {} THEN NoHandle
       ELSE PROVIDER_PATTERNS[CHOOSE i \in hit : TRUE].windowProperty

\* the connection is up and window[p] is its endpoint
ConnectedTo(p) == status = "connected" /\ HandleOfName(currentProvider) = p

C12_InvalidChainIdIgnored ==
    [][\A p \in Handles, payload \in Payloads("chainChanged") :
          (ConnectedTo(p) /\ Emit(p, "chainChanged", payload))
          => chainId' = IF isValidChainId(payload) THEN payload ELSE chainId]_vars

\* C13: an event-driven failure is not fatal to the connection: while
\* connected, a chain-changed event of the connected endpoint with a malformed
\* payload is reported through the error callback and leaves status connected
\* and currentProvider, accounts and chainId unchanged.
C13_EventFailureNotFatal ==
    [][\A p \in Handles, payload \in Payloads("chainChanged") :
          (/\ ConnectedTo(p)
           /\ ~isValidChainId(payload)
           /\ Emit(p, "chainChanged", payload))
          => /\ log'.onErrors >= 1
             /\ status' = "connected"
             /\ currentProvider' = currentProvider
             /\ accounts' = accounts
             /\ chainId' = chainId]_vars

\* C14: a safeProviderRequest call whose request has not settled when the
\* timer fires rejects with the kind of the timer's own timeout error, and
\* the later resolution or rejection of the abandoned request changes
\* neither the connection state nor the outcome the caller got.
C14_TimeoutKindAndLateSettlement ==
    [][/\ TimerFires
          => /\ ~request'.outcome.ok
             /\ request'.outcome.err.typed
             /\ request'.outcome.err.code = TimeoutError.code
       /\ \A response \in RawResponses :
             AbandonedSettles(response)
             => /\ request'.outcome = request.outcome
                /\ <<currentProvider', accounts', chainId', status', error'>>
                     = <<currentProvider, accounts, chainId, status, error>>]_vars

\* the wrapper has returned to its caller
Returned == request.pc \in {"settled", "timedout"}

\* C15: every exit of the safe request wrapper is a resolved value or a
\* rejection with a Web3ProviderError, whatever request() rejected with or
\* threw, null and undefined included.
C15_OnlyTypedErrorsEscape ==
    Returned => request.outcome.ok \/ request.outcome.err.typed

\* the kind the claim assigns to a raw numeric code
KindOfCode(code) ==
    CASE code = "4001" -> "USER_REJECTED"
      [] code = "4100" -> "UNAUTHORIZED"
      [] code = "4200" -> "UNSUPPORTED_METHOD"
      [] code \in {"4900", "4901"} -> "NETWORK_ERROR"
      [] OTHER -> "JSON_RPC_ERROR"

\* C16: a failure of request() is classified by the raw error's numeric
\* code: 4001 USER_REJECTED, 4100 UNAUTHORIZED, 4200 UNSUPPORTED_METHOD, 4900
\* and 4901 NETWORK_ERROR, and every other failure JSON_RPC_ERROR carrying the
\* raw message; every one carries the method of the request.
C16_ClassifiedByCode ==
    (request.pc = "settled" /\ request.raw.kind \in {"reject", "throw"})
    => LET raw == request.raw.err
           out == request.outcome.err
       IN /\ ~request.outcome.ok
          /\ out.code = KindOfCode(raw.code)
          /\ out.method = request.method
          /\ (out.code = "JSON_RPC_ERROR" /\ raw.message # "") => out.message = raw.message

\* the raw result has the field with a value other than undefined
Carries(x, k) == HasKey(x, k) /\ Get(x, k) # Undefined

C18_ErrorIsLeftByDisconnectOrConnect ==
    [][/\ status' = "error" => disconnect(ReactState)'.status = "disconnected"
       /\ \A c \in Calls, name \in ConnectNames :
             (status = "error" /\ Connect(c, name))
             => status' = "connecting" \/ ~InFlight(calls'[c])]_vars

\* C19: disconnect() changes nothing when currentProvider is null; otherwise
\* it calls the stored detach closure (on a handle that can detach, no
\* handler of that subscription is left), clears the stored closure, and
\* leaves status disconnected, currentProvider null, accounts empty, chainId
\* null and error null; a further disconnect() then changes nothing.
C19_DisconnectResetsOnce ==
    [][/\ (currentProvider # NoProvider /\ Disconnect)
          => /\ \A p \in Handles :
                   (cleanupRef = DetachCleanup(p, cleanupRef.sub) /\ CanDetach(p))
                   => \A i \in 1..Len(handlers'[p]) :
                          handlers'[p][i].sub # cleanupRef.sub
             /\ cleanupRef' = NoCleanup
             /\ status' = "disconnected" /\ currentProvider' = NoProvider
             /\ accounts' = <<>> /\ chainId' = Null /\ error' = NoError
       /\ currentProvider' = NoProvider => disconnect(ReactState)' = ReactState']_vars

C19_Witness ==
    \E c \in Calls :
        /\ calls[c].pc = "resolved"
        /\ status = "disconnected" /\ currentProvider = NoProvider
        /\ accounts = <<>> /\ chainId = Null /\ error = NoError
        /\ cleanupRef = NoCleanup
        /\ CanDetach(calls[c].handle)
        /\ Subscriptions(calls[c].handle) = {}

\* C20: a disconnect event on the handle the hook is connected to and
\* subscribed on leaves status disconnected, currentProvider null, accounts
\* empty and chainId null, records an error made from the reason, and leaves
\* no handler of a per-connection subscription on the handle.
C20_DisconnectEventDetaches ==
    [][\A p \in Handles, payload \in Payloads("disconnect") :
          (ConnectedTo(p) /\ Subscriptions(p) # {} /\ Emit(p, "disconnect", payload))
          => /\ status' = "disconnected" /\ currentProvider' = NoProvider
             /\ accounts' = <<>> /\ chainId' = Null
             /\ error'.typed /\ error'.code = "NETWORK_ERROR"
             /\ error'.message = payload.v[1].message
             /\ \A i \in 1..Len(handlers'[p]) : handlers'[p][i].sub = GlobalSub]_vars

\* the handlers of the held closure's attach that are on its handle
Residual(H) ==
    IF held.cleanup.kind # "detach" THEN <<>>
    ELSE SelectSeq(H[held.cleanup.handle], LAMBDA h : h.sub = held.cleanup.sub)

\* C21 as stated: calling the closure returned by an attach leaves no
\* handler of that attach on the handle, the first time and the second.
C21_NoResidualAfterDetach ==
    held.called >= 1 => Residual(handlers) = <<>>

\* C21: on a handle with removeListener or removeAllListeners, calling the
\* closure returned by an attach leaves no handler of that attach on the
\* handle; with removeListener every other handler stays; a second call of
\* the closure changes nothing.
C21_DetachWhereDetachable ==
    [][Detach
       => LET p == held.cleanup.handle
          IN /\ (held.cleanup.kind = "detach" /\ CanDetach(p))
                => Residual(handlers)' = <<>>
             /\ (held.cleanup.kind = "detach" /\ shape[p].removeListener)
                => handlers' = [handlers EXCEPT ![p] =
                                   SelectSeq(@, LAMBDA h : h.sub # held.cleanup.sub)]
             /\ held.called >= 1 => handlers' = handlers]_vars

C21_Witness ==
    /\ held.called = 2
    /\ held.cleanup.kind = "detach"
    /\ shape[held.cleanup.handle].on = "ok"
    /\ shape[held.cleanup.handle].removeListener
    /\ Residual(handlers) = <<>>
    /\ handlers[held.cleanup.handle] # <<>>

\* C22: in every reachable state chainId is null or a chain id that
\* isValidChainId accepts (0x and lower-case hex digits, not zero, length 3
\* to 64).
C22_ChainIdWellFormed == chainId = Null \/ isValidChainId(chainId)

\* C23: in every reachable state every entry of accounts is an address that
\* isValidAddress accepts (0x and 40 hex digits).
C23_AccountsWellFormed ==
    \A i \in 1..Len(accounts) : isValidAddress(accounts[i])

\* C24: a provider scan leaves status, currentProvider, accounts, chainId
\* and error as they were before it.
C24_ScanLeavesConnectionState ==
    [][Scan => <<status', currentProvider', accounts', chainId', error'>>
               = <<status, currentProvider, accounts, chainId, error>>]_vars

\* C25: a scan never fails, whatever the host holds (an endpoint whose
\* isConnected() throws included): it reports no error, leaves status as it
\* was and error null, and lists the endpoints it can read.
C25_ScanNeverFails ==
    [][Scan => /\ log'.onErrors = 0
               /\ status' = status /\ error' = NoError
               /\ providers' = Hints(detectProviders)]_vars

\* C26: when no isConnected() throws, the scan lists the endpoint of a
\* pattern if and only if its window property holds an endpoint and the
\* marker property is true, or the pattern is customwallet, or the marker
\* property is false.
C26_ListedIffMarked ==
    ~detectProvidersThrows
    => \A i \in 1..Len(PROVIDER_PATTERNS) :
          LET pattern == PROVIDER_PATTERNS[i]
              p == pattern.windowProperty
          IN (\E j \in 1..Len(detectProviders) : detectProviders[j].name = pattern.name)
             <=> /\ WindowHas(p)
                 /\ \/ shape[p].marker = "true"
                    \/ pattern.name = "customwallet"
                    \/ shape[p].marker = "false"

\* C27: a scan that follows a scan, with no change of the host in between,
\* returns the same list (same names and isConnected hints in the same
\* order), leaves the providers state as it is and does not notify the
\* providers-changed observer.
C27_SecondScanIsSilent ==
    [][Scan => LET second == detectProvidersCallback(ReactState)'
               IN /\ Hints(Scanned)' = Hints(Scanned)
                  /\ second.providers = providers'
                  /\ second.notified = 0]_vars

C27_Witness ==
    /\ log.notified = 1
    /\ Len(providers) = 2
    /\ providers = Hints(detectProviders)
    /\ \E i \in 1..Len(providers) : providers[i][2]
    /\ detectProvidersCallback(ReactState).notified = 0

\* the chain ids of the claim: 0x and one or more lower-case hex digits, not
\* all of them zero, 3 to 64 characters long
ClaimedChainId(x) ==
    /\ IsString(x)
    /\ Len(x.v) >= 3 /\ Len(x.v) <= 64
    /\ x.v[1] = "0" /\ x.v[2] = "x"
    /\ \A i \in 3..Len(x.v) : x.v[i] \in HexLower
    /\ \E i \in 3..Len(x.v) : x.v[i] # "0"

\* C28: isValidChainId(c) is true exactly when c is a string matching
\* ^0x[0-9a-f]+$ that denotes a non-zero value and has length 3 to 64.
C28_ValidChainIdExactly ==
    probe.pc = "checked" => (probe.valid <=> ClaimedChainId(probe.input))

\* C29: every attempt of a connect() call, the first and each retry, starts
\* with a scan of its own and takes the endpoint from that scan's result: the
\* attempt goes on to request accounts from the endpoint of its name if and
\* only if the host holds a detectable endpoint of that name at that moment.
C29_EveryAttemptScans ==
    [][\A c \in Calls :
          (BackoffElapsed(c) \/ \E name \in ConnectNames : Connect(c, name))
          => LET f == calls'[c]
             IN /\ f.scans = f.attempt + 1
                /\ IF Detected(f.name)
                   THEN f.pc = "acc1" /\ f.handle = HandleOfName(f.name)
                   ELSE f.pc # "acc1"]_vars

C29_Witness ==
    \E c \in Calls :
        /\ calls[c].attempt >= 1
        /\ calls[c].pc = "acc1"
        /\ calls[c].name = "metamask"
        /\ calls[c].handle = "ethereum"
        /\ ~present["customWallet"]
        /\ log.notified = 1

\* C30: if the timers fire, every connect() call settles in the end and
\* status leaves connecting in the end, even if the endpoint leaves a request
\* unanswered.
C30_ConnectSettles ==
    /\ \A c \in Calls : InFlight(calls[c]) ~> ~InFlight(calls[c])
    /\ (status = "connecting") ~> (status # "connecting")

\* C31: the chain id is mandatory for a committed connection.  When the
\* eth_chainId request of an attempt fails (the direct request and the wrapped
\* fallback both), the attempt throws a Web3ProviderError with code
\* JSON_RPC_ERROR and the step commits nothing; when connect commits, the chain
\* id it commits is a string the endpoint returned, never null, undefined or
\* an envelope.
C31_ChainIdMandatory ==
    [][\A c \in Calls :
          calls[c].pc \in {"chain1", "chain2"} =>
              /\ calls'[c].pc = "resolved" =>
                     /\ status' = "connected"
                     /\ chainId' = log'.answer.value
                     /\ IsString(chainId')
              /\ calls'[c].pc \in {"backoff", "rejected"} =>
                     /\ log'.answer.kind # "resolve"
                     /\ status' # "connected"
                     /\ <<currentProvider', accounts', chainId'>>
                            = <<currentProvider, accounts, chainId>>
              /\ calls'[c].pc = "rejected" =>
                     calls'[c].err.typed /\ calls'[c].err.code = "JSON_RPC_ERROR"]_vars

\* the payload carries at least one entry that is a valid address
HasValidAddress(payload) == ValidAccounts(payload) # <<>>

\* C32: an accountsChanged event with at least one valid address, delivered to
\* an endpoint that carries the handlers of a connection attempt, replaces
\* accounts with exactly the valid entries in the reported order and leaves
\* status, currentProvider, chainId and error as they were, in every status.
C32_AccountsReplacedInPlace ==
    [][\A p \in Handles, payload \in Payloads("accountsChanged") :
          (/\ HasValidAddress(payload)
           /\ \E i \in 1..Len(handlers[p]) : handlers[p][i].fn = "handleAccountsChanged"
           /\ Emit(p, "accountsChanged", payload))
          => /\ accounts' = ValidAccounts(payload)
             /\ <<status', currentProvider', chainId', error'>>
                    = <<status, currentProvider, chainId, error>>]_vars

\* C33: config.onError is invoked exactly once per failure.  The step in which
\* a connect() call rejects invokes it once, a step in which an attempt fails
\* and is retried does not invoke it, an attempt whose provider.on throws
\* invokes it once, and an invalid chainChanged payload delivered to an
\* endpoint with the handlers of a connection attempt invokes it once.
C33_ReportedOncePerOccurrence ==
    [][/\ \A c \in Calls :
            /\ (calls[c].pc # "rejected" /\ calls'[c].pc = "rejected")
                   => log'.onErrors = 1
            /\ (calls[c].pc \notin {"idle", "backoff"} /\ calls'[c].pc = "backoff")
                   => log'.onErrors = 0
            /\ (calls[c].pc \in {"idle", "backoff"} /\ calls'[c].pc = "acc1")
                   => log'.onErrors = IF shape[calls'[c].handle].on = "throws" THEN 1 ELSE 0
       /\ \A p \in Handles, payload \in Payloads("chainChanged") :
            (/\ ~isValidChainId(payload)
             /\ \E i \in 1..Len(handlers[p]) : handlers[p][i].fn = "handleChainChanged"
             /\ Emit(p, "chainChanged", payload))
            => log'.onErrors = 1]_vars

\* the handlers of handleChainChanged on window[p], one per subscription attached
ChainSubscriptions(p) ==
    SelectSeq(handlers[p], LAMBDA h : h.fn = "handleChainChanged")

\* C33 (as the code has it): the step in which a connect() call rejects
\* invokes config.onError once, a retried attempt does not invoke it, an
\* attempt whose provider.on throws invokes it once, and an invalid
\* chainChanged payload invokes it once per subscription still attached to the
\* endpoint: exactly once on a handle that has removeListener.
C33_ReportedOnceWhereDetachable ==
    [][/\ \A c \in Calls :
            /\ (calls[c].pc # "rejected" /\ calls'[c].pc = "rejected")
                   => log'.onErrors = 1
            /\ (calls[c].pc \notin {"idle", "backoff"} /\ calls'[c].pc = "backoff")
                   => log'.onErrors = 0
            /\ (calls[c].pc \in {"idle", "backoff"} /\ calls'[c].pc = "acc1")
                   => log'.onErrors = IF shape[calls'[c].handle].on = "throws" THEN 1 ELSE 0
       /\ \A p \in Handles, payload \in Payloads("chainChanged") :
            (/\ ~isValidChainId(payload)
             /\ ChainSubscriptions(p) # <<>>
             /\ Emit(p, "chainChanged", payload))
            => /\ log'.onErrors = Len(ChainSubscriptions(p))
               /\ shape[p].removeListener => log'.onErrors = 1]_vars

\* an invalid chain id has been reported once, by the one subscription left
\* on a detachable endpoint after a retried attempt
C33_Witness ==
    /\ log.onErrors = 1
    /\ error.message = "Invalid chain ID format received"
    /\ \E c \in Calls :
          /\ calls[c].attempt = 1
          /\ calls[c].handle # NoHandle
          /\ shape[calls[c].handle].removeListener
          /\ Len(ChainSubscriptions(calls[c].handle)) = 1

\* the handlers of the event on window[p] are those of connection attempts
\* only: the mount effect has put none there
OnlyAttached(p, ev) ==
    /\ HandlersFor(p, ev) # <<>>
    /\ \A i \in 1..Len(HandlersFor(p, ev)) : HandlersFor(p, ev)[i].sub # GlobalSub

\* C34: the handlers attached by setupProviderEventListeners let no exception
\* out to the endpoint that emits the event.  A single non-array accounts
\* value is handled as a one-element list and null as the empty list; when a
\* callback of the host throws while an event is handled, config.onError is
\* invoked once and the emit returns normally.
C34_HandlersNeverThrow ==
    [][\A p \in Handles, ev \in Events :
          \A payload \in Payloads(ev) \cup MalformedPayloads(ev) :
              (OnlyAttached(p, ev) /\ Emit(p, ev, payload)) =>
                  /\ ~log'.raised
                  /\ log'.onErrors <= 1
                  /\ (ev = "accountsChanged" /\ "onAccountsChanged" \notin config) =>
                         accounts' = ValidAccounts(IF IsArray(payload) THEN payload
                                                   ELSE IF payload = Null THEN Arr(<<>>)
                                                   ELSE Arr(<<payload>>))]_vars

\* the frame of a call of setupProviderEventListeners on window[p] and of the
\* closure it returned; Registering are the kinds of `on` with which the call
\* registers its handlers
AttachDetachFrame(Registering) ==
    /\ \A p \in Handles :
          Attach(p) =>
              IF shape[p].on = "absent"
              THEN handlers' = handlers /\ held'.cleanup = NoopCleanup
              ELSE LET mine == SubscriptionHandlers(<<0, held.attached + 1>>)
                   IN shape[p].on \in Registering =>
                      /\ handlers' = [handlers EXCEPT ![p] = @ \o mine]
                      /\ Len(mine) = 4
                      /\ {mine[i].ev : i \in 1..4} = Events
                      /\ held'.cleanup.kind = "detach"
    /\ Detach =>
          LET p == held.cleanup.handle
          IN /\ held.cleanup.kind = "noop" => handlers' = handlers
             /\ (held.cleanup.kind = "detach" /\ shape[p].removeListener) =>
                   /\ handlers' = [handlers EXCEPT
                                      ![p] = SelectSeq(@, LAMBDA h : h.sub # held.cleanup.sub)]
                   /\ (held.called = 0 /\ shape[p].on \in Registering) =>
                          /\ handlers'[p] \o SubscriptionHandlers(held.cleanup.sub)
                                 = handlers[p]
                          /\ Len(handlers[p]) = Len(handlers'[p]) + 4

\* C35: setupProviderEventListeners on a handle without `on` registers nothing
\* and returns a no-op closure; on any other handle it registers exactly the
\* four handlers (accountsChanged, chainChanged, disconnect, connect), and on a
\* handle with removeListener the closure removes exactly those four, so that
\* the handlers the handle had before the attach are what is left.
C35_AttachDetachFrame ==
    [][AttachDetachFrame({"ok", "throws"})]_vars

\* C35 (as the code has it): the same where provider.on does not throw; on a
\* handle whose `on` throws the call registers nothing more and reports the
\* failure, and the closure it returns finds nothing of its own to remove.
C35_AttachDetachFrameWhereOnWorks ==
    [][/\ AttachDetachFrame({"ok"})
       /\ \A p \in Handles :
             (Attach(p) /\ shape[p].on = "throws") =>
                 /\ handlers' = handlers
                 /\ held'.cleanup.kind = "detach"
                 /\ log'.onErrors = 1]_vars

\* the closure of the second attach has been called on a handle with
\* removeListener: its four handlers are gone, those of the first attach and
\* of the mount effect are in place
C35_Witness ==
    /\ held.attached = 2
    /\ held.called = 1
    /\ LET p == held.cleanup.handle
       IN /\ held.cleanup.kind = "detach"
          /\ shape[p].on = "ok"
          /\ shape[p].removeListener
          /\ handlers[p] = GlobalHandlers(p) \o SubscriptionHandlers(<<0, 1>>)

\* C36: on a handle that exposes setAddress, an attempt whose account request
\* succeeded calls setAddress with the first address before it goes on to the
\* chain id, and whatever setAddress does (return, throw, reject, or nothing
\* until the 5-second timer fires) the attempt goes on with the same accounts.
C36_SetAddressIsCalledAndHarmless ==
    [][\A c \in Calls :
          /\ (/\ calls[c].pc \in {"acc1", "acc2", "acc3"}
              /\ calls'[c].pc \in {"setAddress", "chain1"}
              /\ calls'[c].accs.v # <<>>
              /\ shape[calls'[c].handle].setAddress)
             => calls'[c].pc = "setAddress"
          /\ (calls[c].pc = "setAddress" /\ calls'[c].pc # "setAddress")
             => /\ calls'[c].pc = "chain1"
                /\ calls'[c].accs = calls[c].accs
                /\ calls'[c].accs.v # <<>>]_vars

\* C37: once the cleanup of the mount effect has run, no handler of the SDK is
\* on any endpoint object, the interval timer runs no scan, and no handler is
\* attached any more, whatever a connect() call in flight does afterwards.
C37_NothingLeftAfterUnmount ==
    /\ [](~mounted => \A p \in Handles : handlers[p] = <<>>)
    /\ [][~mounted => (~Scan /\ \A p \in Handles : Len(handlers'[p]) <= Len(handlers[p]))]_vars

\* C38: whenever status is connected, the closure stored in cleanupRef is the
\* one returned by the setupProviderEventListeners call on the endpoint object
\* of currentProvider.
C38_DetachIsOfActiveEndpoint ==
    status = "connected" =>
        /\ cleanupRef.kind = "detach"
        /\ cleanupRef.handle = HandleOfName(currentProvider)

\* C39: an attempt sends eth_requestAccounts at most three times, one request
\* at a time (the wrapped request, the direct fallback, the direct request of
\* the outer catch), and a connect() call makes at most maxRetries + 1
\* attempts, so at most 3 * (maxRetries + 1) requests; an attempt whose
\* wrapped request returns a non-empty account list has sent exactly one and
\* goes on without another.
C39_AccountRequestBudget ==
    /\ [](\A c \in Calls : calls[c].sent <= 3 /\ calls[c].attempt + 1 <= maxRetries + 1)
    /\ [][\A c \in Calls :
             /\ calls'[c].sent # calls[c].sent =>
                   \/ /\ calls'[c].sent = calls[c].sent + 1
                      /\ calls'[c].attempt = calls[c].attempt
                      /\ calls[c].pc \in {"acc1", "acc2"}
                      /\ calls'[c].pc \in {"acc2", "acc3"}
                   \/ /\ calls'[c].sent = 1
                      /\ calls'[c].pc = "acc1"
                      /\ calls[c].pc \in {"idle", "backoff"}
                   \/ calls'[c].sent = 0 /\ ~InFlight(calls'[c])
             /\ (/\ calls[c].pc = "acc1"
                 /\ calls'[c].pc # "acc1"
                 /\ log'.answer.kind = "resolve"
                 /\ NonEmptyList(log'.answer.value))
                => /\ calls'[c].sent = 1
                   /\ calls'[c].pc \in {"setAddress", "chain1"}
             /\ (calls[c].pc \in {"setAddress", "chain1", "chain2"}
                 /\ calls'[c].attempt = calls[c].attempt
                 /\ InFlight(calls'[c]))
                => calls'[c].sent = calls[c].sent]_vars

\* the last attempt of a call has sent its third eth_requestAccounts
C39_Witness ==
    \E c \in Calls :
        /\ calls[c].pc = "acc3"
        /\ calls[c].sent = 3
        /\ calls[c].attempt = maxRetries
        /\ maxRetries = DefaultMaxRetries

====
